---- MODULE Spec2Model ----
(***************************************************************************)
(* Verification model of the jalapeno storefront client.                   *)
(*                                                                         *)
(*  Part I  : api.chatStream, the consumer of the line-delimited event     *)
(*            stream of the chat endpoint (services/api.ts).               *)
(*  Part II : startStatusProgression, the mock order-status progression    *)
(*            (services/orderStatusService.ts), in its two variants.       *)
(*  Part III: the status helpers of orderStatusService (getStatuses,       *)
(*            getStatusIndex, isStatusComplete, isStatusCurrent).          *)
(*  Part IV : CartProvider and its cartReducer (context/CartContext.jsx),  *)
(*            with and without React.StrictMode's second reducer call.     *)
(*  Part V  : ToastProvider (context/ToastContext.tsx) and its timers.     *)
(*  Part VI : handleCheckout of the cart drawer (components/Cart/          *)
(*            CartDrawer.jsx) and the delivery notification it schedules   *)
(*            (services/notificationService.ts).                           *)
(*  Part VII: loadProducts of the product grid (components/Catalog/        *)
(*            ProductGrid.jsx).                                            *)
(*                                                                         *)
(* Text is written as TLA+ strings.  A byte string is a string with one    *)
(* character per byte: a byte below 0x80 is written as its ASCII           *)
(* character, and the two bytes of the UTF-8 encoding of U+00E9 are        *)
(* written LeadByte and ContByte.  In decoded text U+00E9 is written       *)
(* CharE9 and U+FFFD is written Replacement.                               *)
(***************************************************************************)
EXTENDS Integers, Sequences, FiniteSets, TLC

VARIABLES
    \* ---- Part I: chatStream ----
    records,    \* the records the server writes, as a sequence of record kinds
    tail,       \* bytes the server writes after the last newline
    stream,     \* the response body: the bytes of records, then tail
    mode,       \* "free": the transport splits anywhere; "script": as in script
    script,     \* the chunk lengths still to be delivered in mode "script"
    pos,        \* number of bytes of the response body handed out by read()
    cpc,        \* position of chatStream: fetch, reading, resolved, rejected
    buffer,     \* let buffer
    pending,    \* bytes held inside the TextDecoder (stream: true)
    calls,      \* the callbacks invoked so far, in order
    warned,     \* the lines reported by console.warn
    midLine,    \* history: some value of read() ended inside a line
    loading,    \* the `loading` flag of the chat component (handleSend)
    isStreaming,\* the isStreaming flag of the assistant placeholder message
    \* ---- Part II: startStatusProgression ----
    variant,    \* "chained" or "unchained"
    orderId,    \* the argument of startStatusProgression
    spc,        \* "idle" before the call, "started" after it
    now,        \* the clock, in ms
    startedAt,  \* the time of the call, -1 before it
    timers,     \* the armed window.setTimeout timers: [status, due]
    inflight,   \* the statuses whose api.updateOrderStatus has not settled
    issued,     \* the update requests issued so far: sequence of [status, at]
    failed,     \* the statuses whose update was rejected (console.error)
    storage,    \* localStorage: key present -> record status -> timestamp
    events,     \* the orderStatusChange events dispatched: [orderId, status, seen]
    currentStatus, \* the status shown by the mounted OrderStatusModal
    \* ---- Part III: the status helpers of orderStatusService ----
    currentArg, \* the status passed as currentStatus (or as status)
    checkArg,   \* the status passed as checkStatus
    returned,   \* the last call and its return value: [fn, value]
    \* ---- Part IV: CartProvider ----
    strictMode, \* development build: React.StrictMode runs each reducer call twice
    cart,       \* state.items: sequence of [product, quantity], product by its id
    cartBefore, \* history: state.items before the last dispatch
    lastAction, \* history: the last action dispatched: [type, product, quantity]
    shownTotal, \* getTotal() of the last render
    shownCount, \* getItemCount() of the last render
    \* ---- Part V: ToastProvider ----
    toasts,     \* the toast list: sequence of [id, serial, duration]; serial
                \* (the number of the showToast call) and duration are history
    toastTimers,\* the armed auto-dismiss timers: [id, serial, due]
    clock,      \* Date.now(), in ms
    shown,      \* history: the number of showToast calls so far
    removals,   \* history: [toast, duration, by, target] for each toast taken
                \* off the list: by "timer" or "click", meant for toast `target`
    \* ---- Part VI: handleCheckout and the delivery notification ----
    checkoutPc, \* position of handleCheckout: idle, createOrder, permission
    submitting, \* the `submitting` flag of CartDrawer
    drawerOpen, \* the drawer is shown (onClose not called yet)
    orderItems, \* the payload of the last api.createOrder: [product_id, quantity]
    cleared,    \* history: state.items as handleCheckout's clearCart() found it
    requestsSent, \* the number of api.createOrder requests sent; the n-th
                \* request, when it succeeds, creates the order of id n
    checkouts,  \* history: the number of calls of handleCheckout
    cartChanges,\* history: the number of cart changes made around the checkout
    toastCalls, \* the toast.success / toast.error calls: sequence of types
    supported,  \* 'Notification' in window
    permission, \* Notification.permission: default, granted, denied
    constructorThrows, \* new Notification(...) throws on this platform
    notifTimers,\* the order ids of the armed delivery timers
    fired,      \* history: the delivery timers that have fired: [orderId,
                \* permitted], permitted being canShowPushNotification() then
    pushes,     \* the order ids of the push Notifications constructed
    deliveryEvents, \* the deliveryNotification events dispatched: [orderId]
    \* ---- Part VII: ProductGrid.loadProducts ----
    filter,     \* the props of the grid: [searchQuery, selectedCategory]
    gridCount,  \* the number of loadProducts calls so far; the last is the latest
    gridInFlight, \* the api.getProducts requests not settled: [call, filter]
    gridRejected, \* history: the calls whose request was rejected
    products,   \* the call whose response setProducts was last given; 0: none
    gridLoading,\* the `loading` state of the grid
    gridError   \* the `error` state of the grid: TRUE when an error is shown

chatVars   == <<records, tail, stream, mode, script, pos, cpc, buffer, pending, calls, warned,
               midLine, loading, isStreaming>>
statusVars == <<variant, orderId, spc, now, startedAt, timers, inflight, issued,
                failed, storage, events, currentStatus>>
helperVars == <<currentArg, checkArg, returned>>
cartVars   == <<strictMode, cart, cartBefore, lastAction, shownTotal, shownCount>>
toastVars  == <<toasts, toastTimers, clock, shown, removals>>
checkoutVars == <<checkoutPc, submitting, drawerOpen, orderItems, cleared, requestsSent,
                  checkouts, cartChanges, toastCalls, supported, permission,
                  constructorThrows, notifTimers, fired, pushes, deliveryEvents>>
gridVars   == <<filter, gridCount, gridInFlight, gridRejected, products, gridLoading,
                gridError>>
vars       == <<chatVars, statusVars, helperVars, cartVars, toastVars, checkoutVars,
                gridVars>>

\* What the actions of one part leave alone.
outsideChat   == <<statusVars, helperVars, cartVars, toastVars, checkoutVars, gridVars>>
outsideStatus == <<chatVars, helperVars, cartVars, toastVars, checkoutVars, gridVars>>
outsideHelper == <<chatVars, statusVars, cartVars, toastVars, checkoutVars, gridVars>>
outsideCart   == <<chatVars, statusVars, helperVars, toastVars, checkoutVars, gridVars>>
outsideToast  == <<chatVars, statusVars, helperVars, cartVars, checkoutVars, gridVars>>
\* handleCheckout works on the cart too.
outsideCheckout == <<chatVars, statusVars, helperVars, toastVars, gridVars>>
outsideGrid   == <<chatVars, statusVars, helperVars, cartVars, toastVars, checkoutVars>>

------------------------------------------------------------------------------
(* Bounds *)

\* The response body holds at most MaxRecords lines and MaxStreamLen bytes.
MaxRecords == 2

MaxStreamLen == 64

\* The clock stops advancing for the sake of a request in flight at MaxTime.
MaxTime == 45000

\* No cart entry is taken beyond the quantity MaxQuantity.
MaxQuantity == 8

\* showToast is called at most MaxToasts times, at a time up to MaxClock.
MaxToasts == 3

MaxClock == 4000

\* handleCheckout is called at most MaxCheckouts times, with at most
\* MaxCartChanges changes of the cart around it.
MaxCheckouts == 2

MaxCartChanges == 2

\* loadProducts is called at most MaxLoads times.
MaxLoads == 3

------------------------------------------------------------------------------
(* Part I: the wire format *)

LeadByte    == "^"
ContByte    == "~"
CharE9      == "@"
Replacement == "?"

NoArg     == "<no argument>"
Undefined == "<undefined>"

\* The bytes of one line of each kind (without the newline that ends it).
LineOf(kind) ==
    CASE kind = "hi"          -> "data: {\"type\":\"text\",\"content\":\"Hi\"}"
      [] kind = "text"        -> "data: {\"type\":\"text\",\"content\":\"^~\"}"
      [] kind = "suggestions" -> "data: {\"type\":\"suggestions\",\"suggestions\":[]}"
      [] kind = "cart_add"    -> "data: {\"type\":\"cart_add\",\"items\":[]}"
      [] kind = "done"        -> "data: {\"type\":\"done\"}"
      [] kind = "error"       -> "data: {\"type\":\"error\",\"message\":\"E\"}"
      [] kind = "ping"        -> "data: {\"type\":\"ping\"}"
      [] kind = "bad"         -> "data: {\"typ"
      [] kind = "nondata"     -> "DATA: {\"type\":\"done\"}"
      [] kind = "empty"       -> ""

FreeKinds == {"text", "suggestions", "cart_add", "done", "error", "ping",
              "bad", "nondata", "empty"}

RECURSIVE StreamOf(_)
StreamOf(rs) ==
    IF rs = <<>> THEN "" ELSE LineOf(Head(rs)) \o "\n" \o StreamOf(Tail(rs))

\* The response body.
BodyOf(rs, rest) == StreamOf(rs) \o rest

------------------------------------------------------------------------------
(* Part I: chatStream, services/api.ts 152-209 *)

\* The concatenation of pieces[lo], ..., pieces[hi].
RECURSIVE Concat(_, _, _)
Concat(pieces, lo, hi) ==
    IF lo > hi THEN ""
    ELSE IF lo = hi THEN pieces[lo]
    ELSE LET mid == (lo + hi) \div 2
         IN  Concat(pieces, lo, mid) \o Concat(pieces, mid + 1, hi)

\* The positions of text, in increasing order, that hold a character of S.
PositionsOf(text, S) ==
    LET P      == {i \in 1..Len(text) : SubSeq(text, i, i) \in S}
        nth(k) == CHOOSE i \in P : Cardinality({j \in P : j < i}) = k - 1
    IN  [k \in 1..Cardinality(P) |-> nth(k)]

\* decoder.decode(value, { stream: true }) of a UTF-8 TextDecoder, applied to
\* the bytes held back by the previous call followed by value: the decoded
\* text and the bytes of an incomplete sequence held back for the next call.
\* A lead byte and the continuation byte after it give one character; a lead
\* byte followed by anything else, and a continuation byte that follows no
\* lead byte, give U+FFFD; a lead byte at the end is held back; every other
\* byte is the character it encodes.
Utf8(bytes) ==
    LET n      == Len(bytes)
        b(i)   == SubSeq(bytes, i, i)
        p      == PositionsOf(bytes, {LeadByte, ContByte})
        m      == Len(p)
        out(i) ==
            IF b(i) = LeadByte
            THEN IF i = n THEN ""
                 ELSE IF b(i + 1) = ContByte THEN CharE9 ELSE Replacement
            ELSE IF i > 1 /\ b(i - 1) = LeadByte THEN "" ELSE Replacement
        \* the j-th multi-byte position followed by the ASCII run after it
        piece(j) ==
            IF j = 0
            THEN SubSeq(bytes, 1, IF m = 0 THEN n ELSE p[1] - 1)
            ELSE out(p[j]) \o SubSeq(bytes, p[j] + 1, IF j = m THEN n ELSE p[j + 1] - 1)
    IN  [text    |-> Concat([j \in 1..(m + 1) |-> piece(j - 1)], 1, m + 1),
         pending |-> IF n > 0 /\ b(n) = LeadByte THEN LeadByte ELSE ""]

\* buffer += decoder.decode(value, { stream: true })
Decode(held, value) == Utf8(held \o value)

\* buffer.split('\n'): the pieces between the newlines, the last one being
\* what follows the last newline.
Split(text) ==
    LET nl       == PositionsOf(text, {"\n"})
        n        == Len(nl)
        first(k) == IF k = 1 THEN 1 ELSE nl[k - 1] + 1
        last(k)  == IF k = n + 1 THEN Len(text) ELSE nl[k] - 1
    IN  [k \in 1..(n + 1) |-> SubSeq(text, first(k), last(k))]

\* A loop that takes every piece, the one after the last newline included.
CompleteLinesAll(lines) == lines

\* lines after lines.pop(): the complete lines.
CompleteLines(lines) == SubSeq(lines, 1, Len(lines) - 1)

\* A buffer that is emptied after every chunk.
KeepIncompleteNone(lines) == ""

\* buffer = lines.pop() || ''
KeepIncomplete(lines) == lines[Len(lines)]

\* A prefix test that ignores the case of the prefix.
StartsWithDataAnyCase(line) ==
    /\ Len(line) >= 6
    /\ SubSeq(line, 1, 6) \in {"data: ", "DATA: "}

\* line.startsWith('data: ')
StartsWithData(line) ==
    /\ Len(line) >= 6
    /\ SubSeq(line, 1, 6) = "data: "

\* line.slice(6)
Slice6(line) == SubSeq(line, 7, Len(line))

SyntaxError == [type |-> "<SyntaxError>"]

\* JSON.parse on the payloads of the wire format above; every other text that
\* a line of Stream can give is not JSON.  An array is kept as its text.
JSONParse(text) ==
    CASE text = "{\"type\":\"text\",\"content\":\"Hi\"}"
           -> [type |-> "text", content |-> "Hi"]
      [] text = "{\"type\":\"text\",\"content\":\"" \o CharE9 \o "\"}"
           -> [type |-> "text", content |-> CharE9]
      [] text = "{\"type\":\"suggestions\",\"suggestions\":[]}"
           -> [type |-> "suggestions", suggestions |-> "[]"]
      [] text = "{\"type\":\"cart_add\",\"items\":[]}"
           -> [type |-> "cart_add", items |-> "[]"]
      [] text = "{\"type\":\"done\"}"
           -> [type |-> "done"]
      [] text = "{\"type\":\"error\",\"message\":\"E\"}"
           -> [type |-> "error", message |-> "E"]
      [] text = "{\"type\":\"ping\"}"
           -> [type |-> "ping"]
      [] OTHER -> SyntaxError

\* data.<field>
Get(data, field) == IF field \in DOMAIN data THEN data[field] ELSE Undefined

Call(cb, arg) == [cb |-> cb, arg |-> arg]

\* A dispatch that hands the suggestions callback the wrong field.
DispatchWrongField(data) ==
    CASE data.type = "text"        -> <<Call("onChunk", Get(data, "content"))>>
      [] data.type = "suggestions" -> <<Call("onSuggestions", Get(data, "items"))>>
      [] data.type = "cart_add"    -> <<Call("onCartAdd", Get(data, "items"))>>
      [] data.type = "done"        -> <<Call("onDone", NoArg)>>
      [] data.type = "error"       -> <<Call("onError", Get(data, "message"))>>
      [] OTHER                     -> <<>>

\* The if/else-if chain on data.type: the callbacks it invokes.
Dispatch(data) ==
    CASE data.type = "text"        -> <<Call("onChunk", Get(data, "content"))>>
      [] data.type = "suggestions" -> <<Call("onSuggestions", Get(data, "suggestions"))>>
      [] data.type = "cart_add"    -> <<Call("onCartAdd", Get(data, "items"))>>
      [] data.type = "done"        -> <<Call("onDone", NoArg)>>
      [] data.type = "error"       -> <<Call("onError", Get(data, "message"))>>
      [] OTHER                     -> <<>>

\* One iteration of `for (const line of lines)`, on st = [calls, warned].
ProcessLine(line, st) ==
    IF StartsWithData(line)
    THEN LET data == JSONParse(Slice6(line))
         IN  IF data = SyntaxError
             THEN [st EXCEPT !.warned = Append(@, line)]
             ELSE [st EXCEPT !.calls = @ \o Dispatch(data)]
    ELSE st

\* A loop whose try/catch encloses the whole loop: the first line that fails
\* to parse ends the processing of the chunk.
RECURSIVE ProcessLinesTryOutside(_, _)
ProcessLinesTryOutside(lines, st) ==
    IF lines = <<>> THEN st
    ELSE LET nxt == ProcessLine(Head(lines), st)
         IN  IF nxt.warned # st.warned THEN nxt
             ELSE ProcessLinesTryOutside(Tail(lines), nxt)

\* for (const line of lines) { ... }
RECURSIVE ProcessLines(_, _)
ProcessLines(lines, st) ==
    IF lines = <<>> THEN st
    ELSE ProcessLines(Tail(lines), ProcessLine(Head(lines), st))

\* The body of the while loop for one value returned by reader.read(), on
\* st = [buffer, pending, calls, warned].
ProcessChunk(st, value) ==
    LET dec   == Decode(st.pending, value)
        lines == Split(st.buffer \o dec.text)
        out   == ProcessLines(CompleteLines(lines),
                              [calls |-> st.calls, warned |-> st.warned])
    IN  [buffer  |-> KeepIncomplete(lines),
         pending |-> dec.pending,
         calls   |-> out.calls,
         warned  |-> out.warned]

Start == [buffer |-> "", pending |-> "", calls |-> <<>>, warned |-> <<>>]

------------------------------------------------------------------------------
(* Part I: the transport and the steps of chatStream *)

RECURSIVE SeqsUpTo(_, _)
SeqsUpTo(S, n) ==
    IF n = 0 THEN {<<>>}
    ELSE LET shorter == SeqsUpTo(S, n - 1)
         IN  shorter \cup {Append(q, x) : q \in shorter, x \in S}

\* What the server may leave after the last newline: nothing, or a record
\* that is not ended by a newline.
Tails == {"", LineOf("done")}

\* The chunks of the example of the specification (section 8).
ExampleChunks ==
    << "data: {\"type\":\"text\",\"content\":\"Hi\"}\n",
       "data: {\"typ",
       "e\":\"done\"}\n\n" >>

ExampleRecords == <<"hi", "done", "empty">>

ChatInit ==
    /\ \/ /\ mode = "free"
          /\ records \in SeqsUpTo(FreeKinds, MaxRecords)
          /\ tail \in Tails
          /\ Len(BodyOf(records, tail)) <= MaxStreamLen
          /\ script = <<>>
       \/ /\ mode = "script"
          /\ records = ExampleRecords
          /\ tail = ""
          /\ script = ExampleChunks
    /\ stream = BodyOf(records, tail)
    /\ pos = 0
    /\ cpc = "fetch"
    /\ buffer = ""
    /\ pending = ""
    /\ calls = <<>>
    /\ warned = <<>>
    /\ midLine = FALSE
    /\ loading = TRUE
    /\ isStreaming = TRUE

\* Before chatStream is called; the state of Part I while Part II runs.
ChatIdle ==
    /\ mode = "free"
    /\ records = <<>>
    /\ tail = ""
    /\ script = <<>>
    /\ stream = ""
    /\ pos = 0
    /\ cpc = "idle"
    /\ buffer = ""
    /\ pending = ""
    /\ calls = <<>>
    /\ warned = <<>>
    /\ midLine = FALSE
    /\ loading = FALSE
    /\ isStreaming = FALSE

\* The onDone and onError callbacks of handleSend call setLoading(false) and
\* clear isStreaming; onChunk, onSuggestions and onCartAdd touch neither.
EndStreaming(cbs) ==
    \E i \in 1..Len(cbs) : cbs[i].cb \in {"onDone", "onError"}

\* await fetch(...) gives a response that is ok.
FetchOk ==
    /\ cpc = "fetch"
    /\ cpc' = "reading"
    /\ UNCHANGED <<records, tail, stream, mode, script, pos, buffer, pending, calls,
                   warned, midLine, loading, isStreaming>>
    /\ UNCHANGED outsideChat

\* if (!response.ok) throw new Error('Failed to start stream'); the catch
\* block of handleSend clears both flags.
FetchNotOk ==
    /\ cpc = "fetch"
    /\ cpc' = "rejected"
    /\ loading' = FALSE
    /\ isStreaming' = FALSE
    /\ UNCHANGED <<records, tail, stream, mode, script, pos, buffer, pending, calls,
                   warned, midLine>>
    /\ UNCHANGED outsideChat

\* The values the next reader.read() may give.
NextValues ==
    IF mode = "script"
    THEN IF script = <<>> THEN {} ELSE {Head(script)}
    ELSE {SubSeq(stream, pos + 1, pos + n) : n \in 1..(Len(stream) - pos)}

\* One iteration of the while loop in which reader.read() gives a value.
Read ==
    /\ cpc = "reading"
    /\ \E value \in NextValues :
         LET st == ProcessChunk([buffer |-> buffer, pending |-> pending,
                                 calls |-> calls, warned |-> warned], value)
         IN  /\ pos' = pos + Len(value)
             /\ buffer' = st.buffer
             /\ pending' = st.pending
             /\ calls' = st.calls
             /\ warned' = st.warned
             /\ loading' =
                   (loading /\ ~EndStreaming(SubSeq(st.calls, Len(calls) + 1, Len(st.calls))))
             /\ isStreaming' =
                   (isStreaming /\ ~EndStreaming(SubSeq(st.calls, Len(calls) + 1, Len(st.calls))))
             /\ midLine' = \/ midLine
                            \/ /\ pos + Len(value) < Len(stream)
                               /\ st.buffer \o st.pending # ""
    /\ script' = IF mode = "script" THEN Tail(script) ELSE script
    /\ UNCHANGED <<records, tail, stream, mode, cpc>>
    /\ UNCHANGED outsideChat

\* A close that first handles what is left in the buffer as one more line.
ReadDoneFlushes ==
    /\ cpc = "reading"
    /\ pos = Len(stream)
    /\ cpc' = "resolved"
    /\ buffer' = ""
    /\ calls' = ProcessLines(<<buffer>>, [calls |-> calls, warned |-> warned]).calls
    /\ warned' = ProcessLines(<<buffer>>, [calls |-> calls, warned |-> warned]).warned
    /\ UNCHANGED <<records, tail, stream, mode, script, pos, pending, midLine,
                   loading, isStreaming>>
    /\ UNCHANGED outsideChat

\* reader.read() gives done: the transport was closed; break, and the promise
\* of chatStream resolves.  handleSend has nothing after the await.
ReadDone ==
    /\ cpc = "reading"
    /\ pos = Len(stream)
    /\ cpc' = "resolved"
    /\ UNCHANGED <<records, tail, stream, mode, script, pos, buffer, pending, calls,
                   warned, midLine, loading, isStreaming>>
    /\ UNCHANGED outsideChat

ChatNext == FetchOk \/ FetchNotOk \/ Read \/ ReadDone

------------------------------------------------------------------------------
(* Part II: services/orderStatusService.ts *)

\* Status progression delays (ms from order creation)
STATUS_DELAYS == [confirmed |-> 5000, shipped |-> 15000, delivered |-> 30000]

STATUS_ORDER == <<"pending", "confirmed", "shipped", "delivered">>

\* Object.entries(STATUS_DELAYS), in insertion order; also the statuses of
\* statusSequence.
DelayedStatuses == <<"confirmed", "shipped", "delivered">>

statusSequence ==
    [i \in 1..3 |-> [status |-> DelayedStatuses[i],
                     delay  |-> STATUS_DELAYS[DelayedStatuses[i]]]]

\* An index that counts from 1 and gives 0 for a status that is not listed.
getStatusIndexFromOne(status) ==
    IF \E i \in 1..Len(STATUS_ORDER) : STATUS_ORDER[i] = status
    THEN CHOOSE i \in 1..Len(STATUS_ORDER) : STATUS_ORDER[i] = status
    ELSE 0

\* getStatusIndex: STATUS_ORDER.indexOf(status), 0-based, -1 when absent.
getStatusIndex(status) ==
    IF \E i \in 1..Len(STATUS_ORDER) : STATUS_ORDER[i] = status
    THEN (CHOOSE i \in 1..Len(STATUS_ORDER) : STATUS_ORDER[i] = status) - 1
    ELSE -1

OrderIds == {1, 2}

getStorageKey(id) == "order_timestamps_" \o ToString(id)

StorageKeys == {getStorageKey(id) : id \in OrderIds}

NoTimestamps == [s \in {} |-> 0]

\* localStorage with no key set.
EmptyStorage == [k \in {} |-> NoTimestamps]

\* JSON.parse(localStorage.getItem(key) || '{}'): getItem gives null for a key
\* that is not set.  A record of strings survives JSON.stringify and
\* JSON.parse unchanged.
getItemOrEmpty(store, key) ==
    IF key \in DOMAIN store THEN store[key] ELSE NoTimestamps

\* getStatusTimestamps: JSON.parse(localStorage.getItem(key) || '{}')
getStatusTimestamps(store, id) == getItemOrEmpty(store, getStorageKey(id))

\* A save that starts from an empty record instead of the stored one.
saveTimestampFresh(store, id, status, time) ==
    LET key == getStorageKey(id)
    IN  [k \in (DOMAIN store) \cup {key} |->
            IF k = key THEN [s \in {status} |-> time] ELSE store[k]]

\* saveTimestamp: read the record of the order, set timestamps[status] to the
\* current time, write the record back.
saveTimestamp(store, id, status, time) ==
    LET key        == getStorageKey(id)
        timestamps == getItemOrEmpty(store, key)
        updated    == [s \in (DOMAIN timestamps) \cup {status} |->
                          IF s = status THEN time ELSE timestamps[s]]
    IN  [k \in (DOMAIN store) \cup {key} |->
            IF k = key THEN updated ELSE store[k]]

\* The 0-based index in statusSequence of a status.
SequenceIndex(status) ==
    (CHOOSE i \in 1..Len(statusSequence) : statusSequence[i].status = status) - 1

\* The delay given to window.setTimeout by processNextStatus(index).
TimerDelay(index) ==
    IF index = 0
    THEN statusSequence[1].delay
    ELSE statusSequence[index + 1].delay - statusSequence[index].delay

\* A step that arms the timers of all the statuses left, not just the next.
processNextStatusArmsRest(index, time) ==
    {[status |-> statusSequence[i].status,
      due    |-> time + statusSequence[i].delay
                      - (IF index = 0 THEN 0 ELSE statusSequence[index].delay)] :
        i \in (index + 1)..Len(statusSequence)}

\* A chain that stops one status short.
processNextStatusStopsEarly(index, time) ==
    IF index >= Len(statusSequence) - 1
    THEN {}
    ELSE {[status |-> statusSequence[index + 1].status,
           due    |-> time + TimerDelay(index)]}

\* processNextStatus(index) called at `time`: the timers it arms.
processNextStatus(index, time) ==
    IF index >= Len(statusSequence)
    THEN {}
    ELSE {[status |-> statusSequence[index + 1].status,
           due    |-> time + TimerDelay(index)]}

\* The unchained variant: Object.entries(STATUS_DELAYS).forEach(setTimeout).
scheduleAll(time) ==
    {[status |-> DelayedStatuses[i], due |-> time + STATUS_DELAYS[DelayedStatuses[i]]] :
        i \in 1..Len(DelayedStatuses)}

\* What a settled request of `status` arms next, at `time`.
AfterSettled(status, time) ==
    IF variant = "chained"
    THEN processNextStatus(SequenceIndex(status) + 1, time)
    ELSE {}

TimeStep == STATUS_DELAYS.confirmed

StartTimes == {0, TimeStep}

StatusInit ==
    /\ variant \in {"chained", "unchained"}
    /\ orderId \in OrderIds
    /\ spc = "idle"
    /\ now \in StartTimes
    /\ startedAt = -1
    /\ timers = {}
    /\ inflight = {}
    /\ issued = <<>>
    /\ failed = {}
    /\ storage = EmptyStorage
    /\ events = <<>>
    /\ currentStatus = "pending"

\* The state of Part II while Part I runs.
StatusIdle ==
    /\ variant = "chained"
    /\ orderId = 1
    /\ spc = "idle"
    /\ now = 0
    /\ startedAt = -1
    /\ timers = {}
    /\ inflight = {}
    /\ issued = <<>>
    /\ failed = {}
    /\ storage = EmptyStorage
    /\ events = <<>>
    /\ currentStatus = "pending"

\* startStatusProgression(orderId)
StartStatusProgression ==
    /\ spc = "idle"
    /\ spc' = "started"
    /\ startedAt' = now
    /\ storage' = saveTimestamp(storage, orderId, "pending", now)
    /\ timers' = IF variant = "chained" THEN processNextStatus(0, now)
                                       ELSE scheduleAll(now)
    /\ UNCHANGED <<variant, orderId, now, inflight, issued, failed, events,
                   currentStatus>>
    /\ UNCHANGED outsideStatus

\* A timer callback starts: api.updateOrderStatus(orderId, status) is issued.
TimerFires ==
    /\ \E t \in timers :
         /\ t.due <= now
         /\ timers' = timers \ {t}
         /\ inflight' = inflight \cup {t.status}
         /\ issued' = Append(issued, [status |-> t.status, at |-> now])
    /\ UNCHANGED <<variant, orderId, spc, now, startedAt, failed, storage, events,
                   currentStatus>>
    /\ UNCHANGED outsideStatus

\* dispatchStatusChange(orderId, status) with localStorage as `store`: the
\* event, and in `seen` what getStatusTimestamps(orderId) returns to a listener
\* (listeners run inside window.dispatchEvent).
dispatchStatusChange(store, id, status) ==
    [orderId |-> id, status |-> status, seen |-> getStatusTimestamps(store, id)]

\* A try block that announces the status before it saves its timestamp.
OnResolvedDispatchFirst(store, id, status, time) ==
    [event   |-> dispatchStatusChange(store, id, status),
     storage |-> saveTimestamp(store, id, status, time)]

\* The try block after the await: saveTimestamp, then dispatchStatusChange.
OnResolved(store, id, status, time) ==
    LET saved == saveTimestamp(store, id, status, time)
    IN  [event   |-> dispatchStatusChange(saved, id, status),
         storage |-> saved]

\* The request resolves: saveTimestamp, dispatchStatusChange (the listener of
\* OrderStatusModal runs inside dispatchEvent), then the next step.
UpdateResolves ==
    /\ \E s \in inflight :
         /\ inflight' = inflight \ {s}
         /\ storage' = OnResolved(storage, orderId, s, now).storage
         /\ events' = Append(events, OnResolved(storage, orderId, s, now).event)
         /\ currentStatus' = s
         /\ timers' = timers \cup AfterSettled(s, now)
    /\ UNCHANGED <<variant, orderId, spc, now, startedAt, issued, failed>>
    /\ UNCHANGED outsideStatus

\* A catch block that only logs: the next step is not taken after a failure.
UpdateRejectsAndStops ==
    /\ \E s \in inflight :
         /\ inflight' = inflight \ {s}
         /\ failed' = failed \cup {s}
    /\ UNCHANGED <<variant, orderId, spc, now, startedAt, timers, issued, storage,
                   events, currentStatus>>
    /\ UNCHANGED outsideStatus

\* The request rejects: console.error, then the next step.
UpdateRejects ==
    /\ \E s \in inflight :
         /\ inflight' = inflight \ {s}
         /\ failed' = failed \cup {s}
         /\ timers' = timers \cup AfterSettled(s, now)
    /\ UNCHANGED <<variant, orderId, spc, now, startedAt, issued, storage, events,
                   currentStatus>>
    /\ UNCHANGED outsideStatus

NextDue == CHOOSE d \in {t.due : t \in timers} : \A t \in timers : d <= t.due

\* Time passes until the next timer is due.
TimerWait ==
    /\ spc = "started"
    /\ timers # {}
    /\ \A t \in timers : t.due > now
    /\ now' = NextDue
    /\ UNCHANGED <<variant, orderId, spc, startedAt, timers, inflight, issued,
                   failed, storage, events, currentStatus>>
    /\ UNCHANGED outsideStatus

\* Time passes while a request is in flight and no timer is due.
RequestTakesTime ==
    /\ spc = "started"
    /\ inflight # {}
    /\ now + TimeStep <= MaxTime
    /\ \A t \in timers : t.due > now + TimeStep
    /\ now' = now + TimeStep
    /\ UNCHANGED <<variant, orderId, spc, startedAt, timers, inflight, issued,
                   failed, storage, events, currentStatus>>
    /\ UNCHANGED outsideStatus

StatusNext ==
    \/ StartStatusProgression
    \/ TimerFires
    \/ UpdateResolves
    \/ UpdateRejects
    \/ TimerWait
    \/ RequestTakesTime

------------------------------------------------------------------------------
(* Part III: getStatuses, getStatusIndex, isStatusComplete, isStatusCurrent *)

getStatuses == STATUS_ORDER

\* A comparison that leaves out the current status itself.
isStatusCompleteStrict(current, check) ==
    getStatusIndex(current) > getStatusIndex(check)

isStatusComplete(current, check) ==
    getStatusIndex(current) >= getStatusIndex(check)

isStatusCurrent(current, check) == current = check

\* OrderStatus ('cancelled' included), and a string that is no OrderStatus.
AnyStatus == {"pending", "confirmed", "shipped", "delivered", "cancelled", "unknown"}

NotCalled == [fn |-> "none", value |-> 0]

HelperInit ==
    /\ currentArg \in AnyStatus
    /\ checkArg \in AnyStatus
    /\ returned = NotCalled

\* The state of Part III while another part runs.
HelperIdle ==
    /\ currentArg = "pending"
    /\ checkArg = "pending"
    /\ returned = NotCalled

CallGetStatuses ==
    /\ returned' = [fn |-> "getStatuses", value |-> getStatuses]
    /\ UNCHANGED <<currentArg, checkArg>>
    /\ UNCHANGED outsideHelper

CallGetStatusIndex ==
    /\ returned' = [fn |-> "getStatusIndex", value |-> getStatusIndex(currentArg)]
    /\ UNCHANGED <<currentArg, checkArg>>
    /\ UNCHANGED outsideHelper

CallIsStatusComplete ==
    /\ returned' = [fn    |-> "isStatusComplete",
                    value |-> isStatusComplete(currentArg, checkArg)]
    /\ UNCHANGED <<currentArg, checkArg>>
    /\ UNCHANGED outsideHelper

CallIsStatusCurrent ==
    /\ returned' = [fn    |-> "isStatusCurrent",
                    value |-> isStatusCurrent(currentArg, checkArg)]
    /\ UNCHANGED <<currentArg, checkArg>>
    /\ UNCHANGED outsideHelper

HelperNext ==
    \/ CallGetStatuses
    \/ CallGetStatusIndex
    \/ CallIsStatusComplete
    \/ CallIsStatusCurrent

------------------------------------------------------------------------------
(* Part IV: CartProvider and its cartReducer (context/CartContext.jsx) *)

\* The ids of the products; Price is product.price in cents.
Products == {1, 2}

Price == [p \in Products |-> IF p = 1 THEN 1000 ELSE 550]

\* The quantities passed to addItem (1 by default; the chat passes the
\* quantity sent by the server as it is) and to updateQuantity.
AddQuantities == {0, 1, 2, 3}

SetQuantities == {-1, 0, 2, 5}

NoAction == [type |-> "none", product |-> 0, quantity |-> 0]

\* state.items.findIndex(item => item.product.id === id), counted from 1;
\* 0 when there is none (-1 in the code).
findIndex(items, id) ==
    IF \E i \in 1..Len(items) : items[i].product = id
    THEN CHOOSE i \in 1..Len(items) :
            /\ items[i].product = id
            /\ \A j \in 1..(i - 1) : items[j].product # id
    ELSE 0

\* cartReducer(state, action).  `state` is the state it returns; `given` is
\* the state it was given, as it is after the call: ADD_ITEM copies the array
\* but not the entries, so `newItems[existingIndex].quantity +=` changes the
\* entry of the given state too.
cartReducer(items, action) ==
    CASE action.type = "ADD_ITEM" ->
           LET existingIndex == findIndex(items, action.product)
               newItems == [items EXCEPT ![existingIndex].quantity =
                                            @ + action.quantity]
           IN  IF existingIndex > 0
               THEN [state |-> newItems, given |-> newItems]
               ELSE [state |-> Append(items, [product  |-> action.product,
                                              quantity |-> action.quantity]),
                     given |-> items]
      [] action.type = "UPDATE_QUANTITY" ->
           LET mapped == [i \in 1..Len(items) |->
                            IF items[i].product = action.product
                            THEN [items[i] EXCEPT !.quantity = action.quantity]
                            ELSE items[i]]
           IN  [state |-> SelectSeq(mapped, LAMBDA item : item.quantity > 0),
                given |-> items]
      [] action.type = "REMOVE_ITEM" ->
           [state |-> SelectSeq(items, LAMBDA item : item.product # action.product),
            given |-> items]
      [] action.type = "CLEAR_CART" ->
           [state |-> <<>>, given |-> items]
      [] OTHER -> [state |-> items, given |-> items]

\* useReducer: the state after dispatch(action).  Under React.StrictMode
\* (main.tsx) a development build calls the reducer twice with the same state
\* and action and keeps the second result.
dispatch(strict, items, action) ==
    LET first == cartReducer(items, action)
    IN  IF strict THEN cartReducer(first.given, action).state ELSE first.state

RECURSIVE reduce(_, _, _)
\* items.reduce((acc, item) => acc + term(item), acc), term given per index.
reduce(terms, i, acc) ==
    IF i > Len(terms) THEN acc ELSE reduce(terms, i + 1, acc + terms[i])

\* A total that counts each entry once, whatever its quantity.
getTotalPerEntry(items) ==
    reduce([i \in 1..Len(items) |-> Price[items[i].product]], 1, 0)

getTotal(items) ==
    reduce([i \in 1..Len(items) |-> Price[items[i].product] * items[i].quantity], 1, 0)

getItemCount(items) ==
    reduce([i \in 1..Len(items) |-> items[i].quantity], 1, 0)

CartInit ==
    /\ strictMode \in BOOLEAN
    /\ cart = <<>>
    /\ cartBefore = <<>>
    /\ lastAction = NoAction
    /\ shownTotal = getTotal(<<>>)
    /\ shownCount = getItemCount(<<>>)

\* The state of Part IV while another part runs.
CartIdle ==
    /\ strictMode = FALSE
    /\ cart = <<>>
    /\ cartBefore = <<>>
    /\ lastAction = NoAction
    /\ shownTotal = 0
    /\ shownCount = 0

\* No entry of the cart `items` is beyond MaxQuantity.
WithinMaxQuantity(items) ==
    \A i \in 1..Len(items) : items[i].quantity <= MaxQuantity

\* addItem(product, quantity)
AddItem ==
    \E p \in Products, q \in AddQuantities :
        LET action == [type |-> "ADD_ITEM", product |-> p, quantity |-> q]
        IN  /\ WithinMaxQuantity(dispatch(strictMode, cart, action))
            /\ cart' = dispatch(strictMode, cart, action)
            /\ cartBefore' = cart
            /\ lastAction' = action
            /\ shownTotal' = getTotal(cart')
            /\ shownCount' = getItemCount(cart')
            /\ UNCHANGED strictMode
            /\ UNCHANGED outsideCart

\* updateQuantity(productId, quantity)
UpdateQuantity ==
    \E p \in Products, q \in SetQuantities :
        LET action == [type |-> "UPDATE_QUANTITY", product |-> p, quantity |-> q]
        IN  /\ cart' = dispatch(strictMode, cart, action)
            /\ cartBefore' = cart
            /\ lastAction' = action
            /\ shownTotal' = getTotal(cart')
            /\ shownCount' = getItemCount(cart')
            /\ UNCHANGED strictMode
            /\ UNCHANGED outsideCart

\* removeItem(productId)
RemoveItem ==
    \E p \in Products :
        LET action == [type |-> "REMOVE_ITEM", product |-> p, quantity |-> 0]
        IN  /\ cart' = dispatch(strictMode, cart, action)
            /\ cartBefore' = cart
            /\ lastAction' = action
            /\ shownTotal' = getTotal(cart')
            /\ shownCount' = getItemCount(cart')
            /\ UNCHANGED strictMode
            /\ UNCHANGED outsideCart

\* clearCart()
ClearCart ==
    LET action == [type |-> "CLEAR_CART", product |-> 0, quantity |-> 0]
    IN  /\ cart' = dispatch(strictMode, cart, action)
        /\ cartBefore' = cart
        /\ lastAction' = action
        /\ shownTotal' = getTotal(cart')
        /\ shownCount' = getItemCount(cart')
        /\ UNCHANGED strictMode
        /\ UNCHANGED outsideCart

CartNext ==
    \/ AddItem
    \/ UpdateQuantity
    \/ RemoveItem
    \/ ClearCart

------------------------------------------------------------------------------
(* Part V: ToastProvider (context/ToastContext.tsx) *)

\* duration = 3000 by default.
DefaultDuration == 3000

Durations == {0, DefaultDuration}

\* Two of the values Math.random() can give.
RandomValues == {0, 1}

\* Date.now() + Math.random(): the millisecond and the fraction.
NewId(ms, random) == [ms |-> ms, fraction |-> random]

\* setToasts(prev => prev.filter(toast => toast.id !== id))
dismissToast(list, id) == SelectSeq(list, LAMBDA toast : toast.id # id)

\* The entries of `list` that dismissToast(list, id) takes off, dismissed
\* `by` a timer or a click meant for the toast of serial `target`.
Removed(list, id, by, target) ==
    {[toast |-> list[i].serial, duration |-> list[i].duration,
      by |-> by, target |-> target] :
        i \in {j \in 1..Len(list) : list[j].id = id}}

ClockStep == 1000

ToastInit ==
    /\ toasts = <<>>
    /\ toastTimers = {}
    /\ clock \in {0, ClockStep}
    /\ shown = 0
    /\ removals = {}

\* The state of Part V while another part runs.
ToastIdle ==
    /\ toasts = <<>>
    /\ toastTimers = {}
    /\ clock = 0
    /\ shown = 0
    /\ removals = {}

\* showToast(message, type, duration)
ShowToast ==
    /\ shown < MaxToasts
    /\ clock <= MaxClock
    /\ \E duration \in Durations, random \in RandomValues :
         LET id == NewId(clock, random)
         IN  /\ toasts' = Append(toasts, [id |-> id, serial |-> shown + 1,
                                          duration |-> duration])
             /\ toastTimers' =
                   IF duration > 0
                   THEN toastTimers \cup {[id |-> id, serial |-> shown + 1,
                                           due |-> clock + duration]}
                   ELSE toastTimers
    /\ shown' = shown + 1
    /\ UNCHANGED <<clock, removals>>
    /\ UNCHANGED outsideToast

\* The close button of a toast on the list: dismissToast(toast.id).
DismissToast ==
    /\ \E i \in 1..Len(toasts) :
         /\ toasts' = dismissToast(toasts, toasts[i].id)
         /\ removals' = removals \cup
                           Removed(toasts, toasts[i].id, "click", toasts[i].serial)
    /\ UNCHANGED <<toastTimers, clock, shown>>
    /\ UNCHANGED outsideToast

\* An auto-dismiss timer fires: dismissToast(id).
ToastTimerFires ==
    /\ \E t \in toastTimers :
         /\ t.due <= clock
         /\ toastTimers' = toastTimers \ {t}
         /\ toasts' = dismissToast(toasts, t.id)
         /\ removals' = removals \cup Removed(toasts, t.id, "timer", t.serial)
    /\ UNCHANGED <<clock, shown>>
    /\ UNCHANGED outsideToast

NextToastDue ==
    CHOOSE d \in {t.due : t \in toastTimers} : \A t \in toastTimers : d <= t.due

\* Time passes until the next timer is due.
ToastTimerWait ==
    /\ toastTimers # {}
    /\ \A t \in toastTimers : t.due > clock
    /\ clock' = NextToastDue
    /\ UNCHANGED <<toasts, toastTimers, shown, removals>>
    /\ UNCHANGED outsideToast

\* Time passes between two calls.
Elapse ==
    /\ shown < MaxToasts
    /\ clock + ClockStep <= MaxClock
    /\ clock' = clock + ClockStep
    /\ UNCHANGED <<toasts, toastTimers, shown, removals>>
    /\ UNCHANGED outsideToast

ToastNext ==
    \/ ShowToast
    \/ DismissToast
    \/ ToastTimerFires
    \/ ToastTimerWait
    \/ Elapse

------------------------------------------------------------------------------
(* Part VI: handleCheckout (components/Cart/CartDrawer.jsx) and the delivery
   notification (services/notificationService.ts) *)

\* The carts handleCheckout may find.
InitialCarts ==
    { <<>>,
      <<[product |-> 1, quantity |-> 1]>>,
      <<[product |-> 1, quantity |-> 2], [product |-> 2, quantity |-> 1]>> }

Permissions == {"default", "granted", "denied"}

\* items.map(item => ({ product_id: item.product.id, quantity: item.quantity }))
toOrderItems(items) ==
    [i \in 1..Len(items) |->
        [product_id |-> items[i].product, quantity |-> items[i].quantity]]

\* canShowPushNotification()
canShowPushNotification(sup, perm) == sup /\ perm = "granted"

CheckoutInit ==
    /\ strictMode \in BOOLEAN
    /\ cart \in InitialCarts
    /\ cartBefore = <<>>
    /\ lastAction = NoAction
    /\ shownTotal = getTotal(cart)
    /\ shownCount = getItemCount(cart)
    /\ checkoutPc = "idle"
    /\ submitting = FALSE
    /\ drawerOpen = TRUE
    /\ orderItems = <<>>
    /\ cleared = <<>>
    /\ requestsSent = 0
    /\ checkouts = 0
    /\ cartChanges = 0
    /\ toastCalls = <<>>
    /\ supported \in BOOLEAN
    /\ permission \in Permissions
    /\ constructorThrows \in BOOLEAN
    /\ notifTimers = {}
    /\ fired = <<>>
    /\ pushes = <<>>
    /\ deliveryEvents = <<>>

\* The state of Part VI while another part runs.
CheckoutIdle ==
    /\ checkoutPc = "idle"
    /\ submitting = FALSE
    /\ drawerOpen = FALSE
    /\ orderItems = <<>>
    /\ cleared = <<>>
    /\ requestsSent = 0
    /\ checkouts = 0
    /\ cartChanges = 0
    /\ toastCalls = <<>>
    /\ supported = FALSE
    /\ permission = "default"
    /\ constructorThrows = FALSE
    /\ notifTimers = {}
    /\ fired = <<>>
    /\ pushes = <<>>
    /\ deliveryEvents = <<>>

\* handleCheckout is called (the Place Order button is disabled while
\* submitting): with an empty cart it returns at once; otherwise it sets
\* submitting, builds the payload and calls api.createOrder.
HandleCheckout ==
    /\ checkoutPc = "idle"
    /\ ~submitting
    /\ checkouts < MaxCheckouts
    /\ checkouts' = checkouts + 1
    /\ IF Len(cart) = 0
       THEN UNCHANGED <<checkoutPc, submitting, orderItems, requestsSent>>
       ELSE /\ submitting' = TRUE
            /\ orderItems' = toOrderItems(cart)
            /\ requestsSent' = requestsSent + 1
            /\ checkoutPc' = "createOrder"
    /\ UNCHANGED <<drawerOpen, cleared, cartChanges, toastCalls, supported, permission,
                   constructorThrows, notifTimers, fired, pushes, deliveryEvents>>
    /\ UNCHANGED cartVars
    /\ UNCHANGED outsideCheckout

\* await api.createOrder(orderItems) resolves: clearCart(); onClose();
\* toast.success(...); then requestNotificationPermission() is awaited.
CreateOrderResolves ==
    /\ checkoutPc = "createOrder"
    /\ cleared' = cart
    /\ cart' = dispatch(strictMode, cart, [type |-> "CLEAR_CART", product |-> 0,
                                           quantity |-> 0])
    /\ cartBefore' = cart
    /\ lastAction' = [type |-> "CLEAR_CART", product |-> 0, quantity |-> 0]
    /\ shownTotal' = getTotal(cart')
    /\ shownCount' = getItemCount(cart')
    /\ drawerOpen' = FALSE
    /\ toastCalls' = Append(toastCalls, "success")
    /\ checkoutPc' = "permission"
    /\ UNCHANGED <<strictMode, submitting, orderItems, requestsSent, checkouts,
                   cartChanges, supported, permission, constructorThrows, notifTimers,
                   fired, pushes, deliveryEvents>>
    /\ UNCHANGED outsideCheckout

\* A catch block that empties the cart too.
CreateOrderRejectsClears ==
    /\ checkoutPc = "createOrder"
    /\ toastCalls' = Append(toastCalls, "error")
    /\ submitting' = FALSE
    /\ checkoutPc' = "idle"
    /\ cart' = <<>>
    /\ cartBefore' = cart
    /\ lastAction' = [type |-> "CLEAR_CART", product |-> 0, quantity |-> 0]
    /\ shownTotal' = 0
    /\ shownCount' = 0
    /\ UNCHANGED <<strictMode, drawerOpen, orderItems, cleared, requestsSent, checkouts,
                   cartChanges, supported, permission, constructorThrows, notifTimers,
                   fired, pushes, deliveryEvents>>
    /\ UNCHANGED outsideCheckout

\* await api.createOrder(orderItems) rejects: the catch block logs and calls
\* toast.error(...), the finally block resets submitting.
CreateOrderRejects ==
    /\ checkoutPc = "createOrder"
    /\ toastCalls' = Append(toastCalls, "error")
    /\ submitting' = FALSE
    /\ checkoutPc' = "idle"
    /\ UNCHANGED <<drawerOpen, orderItems, cleared, requestsSent, checkouts, cartChanges,
                   supported, permission, constructorThrows, notifTimers, fired, pushes,
                   deliveryEvents>>
    /\ UNCHANGED cartVars
    /\ UNCHANGED outsideCheckout

\* await requestNotificationPermission() settles: at once when the API is
\* missing or the permission is granted or denied, otherwise with the answer
\* to Notification.requestPermission().  Then
\* scheduleDeliveryNotification(order.id) arms its timer and the finally
\* block resets submitting.
PermissionSettles ==
    /\ checkoutPc = "permission"
    /\ \E answer \in Permissions :
          permission' = IF supported /\ permission = "default" THEN answer
                        ELSE permission
    /\ notifTimers' = notifTimers \cup {requestsSent}
    /\ submitting' = FALSE
    /\ checkoutPc' = "idle"
    /\ UNCHANGED <<drawerOpen, orderItems, cleared, requestsSent, checkouts, cartChanges,
                   toastCalls, supported, constructorThrows, fired, pushes,
                   deliveryEvents>>
    /\ UNCHANGED cartVars
    /\ UNCHANGED outsideCheckout

\* A timer callback without the `return` after new Notification(...).
DeliveryTimerFiresBoth ==
    \E id \in notifTimers :
        /\ notifTimers' = notifTimers \ {id}
        /\ fired' = Append(fired,
                           [orderId   |-> id,
                            permitted |-> canShowPushNotification(supported, permission)])
        /\ pushes' = IF canShowPushNotification(supported, permission)
                        /\ ~constructorThrows
                     THEN Append(pushes, id) ELSE pushes
        /\ deliveryEvents' = Append(deliveryEvents, [orderId |-> id])
        /\ toastCalls' = Append(toastCalls, "success")
        /\ UNCHANGED <<checkoutPc, submitting, drawerOpen, orderItems, cleared,
                       requestsSent, checkouts, cartChanges, supported, permission,
                       constructorThrows>>
        /\ UNCHANGED cartVars
        /\ UNCHANGED outsideCheckout

\* The callback of the timer of scheduleDeliveryNotification(orderId): a push
\* Notification when canShowPushNotification() and the constructor does not
\* throw, and then it returns; otherwise the deliveryNotification event, for
\* which App's handleDeliveryNotification calls toast.success.
DeliveryTimerFires ==
    \E id \in notifTimers :
        /\ notifTimers' = notifTimers \ {id}
        /\ fired' = Append(fired,
                           [orderId   |-> id,
                            permitted |-> canShowPushNotification(supported, permission)])
        /\ IF canShowPushNotification(supported, permission) /\ ~constructorThrows
           THEN /\ pushes' = Append(pushes, id)
                /\ UNCHANGED <<deliveryEvents, toastCalls>>
           ELSE /\ deliveryEvents' = Append(deliveryEvents, [orderId |-> id])
                /\ toastCalls' = Append(toastCalls, "success")
                /\ UNCHANGED pushes
        /\ UNCHANGED <<checkoutPc, submitting, drawerOpen, orderItems, cleared,
                       requestsSent, checkouts, cartChanges, supported, permission,
                       constructorThrows>>
        /\ UNCHANGED cartVars
        /\ UNCHANGED outsideCheckout

\* The chat's onCartAdd: addItem(item.product, item.quantity), whatever
\* handleCheckout is doing.
OnCartAdd ==
    \E p \in Products, q \in {1, 2} :
        LET action == [type |-> "ADD_ITEM", product |-> p, quantity |-> q]
        IN  /\ cartChanges < MaxCartChanges
            /\ cartChanges' = cartChanges + 1
            /\ cart' = dispatch(strictMode, cart, action)
            /\ cartBefore' = cart
            /\ lastAction' = action
            /\ shownTotal' = getTotal(cart')
            /\ shownCount' = getItemCount(cart')
            /\ UNCHANGED <<strictMode, checkoutPc, submitting, drawerOpen, orderItems,
                           cleared, requestsSent, checkouts, toastCalls, supported,
                           permission, constructorThrows, notifTimers, fired, pushes,
                           deliveryEvents>>
            /\ UNCHANGED outsideCheckout

\* The Minus and Plus buttons of the open drawer:
\* updateQuantity(item.product.id, item.quantity - 1) and (... + 1).
DrawerUpdateQuantity ==
    \E i \in 1..Len(cart), d \in {-1, 1} :
        LET action == [type |-> "UPDATE_QUANTITY", product |-> cart[i].product,
                       quantity |-> cart[i].quantity + d]
        IN  /\ drawerOpen
            /\ cartChanges < MaxCartChanges
            /\ cartChanges' = cartChanges + 1
            /\ cart' = dispatch(strictMode, cart, action)
            /\ cartBefore' = cart
            /\ lastAction' = action
            /\ shownTotal' = getTotal(cart')
            /\ shownCount' = getItemCount(cart')
            /\ UNCHANGED <<strictMode, checkoutPc, submitting, drawerOpen, orderItems,
                           cleared, requestsSent, checkouts, toastCalls, supported,
                           permission, constructorThrows, notifTimers, fired, pushes,
                           deliveryEvents>>
            /\ UNCHANGED outsideCheckout

CheckoutNext ==
    \/ HandleCheckout
    \/ CreateOrderResolves
    \/ CreateOrderRejects
    \/ PermissionSettles
    \/ DeliveryTimerFires
    \/ OnCartAdd
    \/ DrawerUpdateQuantity

------------------------------------------------------------------------------
(* Part VII: loadProducts (components/Catalog/ProductGrid.jsx) *)

SearchQueries == {"", "milk"}

Categories == {"", "Dairy"}

Filters == [searchQuery : SearchQueries, selectedCategory : Categories]

\* The grid is mounted: the effect has called loadProducts() once.
GridInit ==
    /\ filter \in Filters
    /\ gridCount = 1
    /\ gridInFlight = {[call |-> 1, filter |-> filter]}
    /\ gridRejected = {}
    /\ products = 0
    /\ gridLoading = TRUE
    /\ gridError = FALSE

\* The state of Part VII while another part runs.
GridIdle ==
    /\ filter = [searchQuery |-> "", selectedCategory |-> ""]
    /\ gridCount = 0
    /\ gridInFlight = {}
    /\ gridRejected = {}
    /\ products = 0
    /\ gridLoading = FALSE
    /\ gridError = FALSE

\* searchQuery or selectedCategory changes: the effect calls loadProducts(),
\* which sets loading, clears error and calls api.getProducts with the new
\* values.  Nothing is done about the requests still in flight.
FilterChanges ==
    /\ gridCount < MaxLoads
    /\ \E f \in Filters \ {filter} :
          /\ filter' = f
          /\ gridInFlight' = gridInFlight \cup {[call |-> gridCount + 1, filter |-> f]}
    /\ gridCount' = gridCount + 1
    /\ gridLoading' = TRUE
    /\ gridError' = FALSE
    /\ UNCHANGED <<gridRejected, products>>
    /\ UNCHANGED outsideGrid

\* await api.getProducts(...) resolves: setProducts(data); finally
\* setLoading(false).
GetProductsResolves ==
    /\ \E r \in gridInFlight :
          /\ gridInFlight' = gridInFlight \ {r}
          /\ products' = r.call
    /\ gridLoading' = FALSE
    /\ UNCHANGED <<filter, gridCount, gridRejected, gridError>>
    /\ UNCHANGED outsideGrid

\* await api.getProducts(...) rejects: setError(...); finally setLoading(false).
GetProductsRejects ==
    /\ \E r \in gridInFlight :
          /\ gridInFlight' = gridInFlight \ {r}
          /\ gridRejected' = gridRejected \cup {r.call}
    /\ gridError' = TRUE
    /\ gridLoading' = FALSE
    /\ UNCHANGED <<filter, gridCount, products>>
    /\ UNCHANGED outsideGrid

GridNext ==
    \/ FilterChanges
    \/ GetProductsResolves
    \/ GetProductsRejects

------------------------------------------------------------------------------
(* Specifications *)

\* chatStream is called; startStatusProgression is not.
InitChat == ChatInit /\ StatusIdle /\ HelperIdle /\ CartIdle /\ ToastIdle
              /\ CheckoutIdle /\ GridIdle

SpecChat == InitChat /\ [][ChatNext]_vars

\* The request settles, and every reader.read() settles: the transport
\* delivers what is left of the body or reports its end.
\* ReadSettles is what a step of Read or ReadDone does to pos and cpc: every
\* step of ChatNext that is a ReadSettles step is a Read or a ReadDone step.
ReadSettles ==
    /\ cpc = "reading"
    /\ \/ /\ pos < Len(stream)
          /\ pos' \in (pos + 1)..Len(stream)
          /\ cpc' = cpc
       \/ /\ pos = Len(stream)
          /\ pos' = pos
          /\ cpc' = "resolved"

ChatFairness ==
    /\ WF_vars(FetchOk \/ FetchNotOk)
    /\ WF_<<pos, cpc>>(ReadSettles)

SpecChatFair == InitChat /\ [][ChatNext]_vars /\ ChatFairness

\* startStatusProgression is called; chatStream is not.
InitStatus == StatusInit /\ ChatIdle /\ HelperIdle /\ CartIdle /\ ToastIdle
              /\ CheckoutIdle /\ GridIdle

SpecStatus == InitStatus /\ [][StatusNext]_vars

\* The event loop runs every armed timer once its delay has passed, and every
\* update request settles: it resolves or it rejects.
StatusFairness ==
    /\ WF_vars(TimerWait)
    /\ WF_vars(TimerFires)
    /\ WF_vars(UpdateResolves \/ UpdateRejects)

SpecStatusFair == InitStatus /\ [][StatusNext]_vars /\ StatusFairness

\* The status helpers are called; nothing else runs.
InitHelper == HelperInit /\ ChatIdle /\ StatusIdle /\ CartIdle /\ ToastIdle
              /\ CheckoutIdle /\ GridIdle

SpecHelper == InitHelper /\ [][HelperNext]_vars

\* The cart is used; nothing else runs.
InitCart == CartInit /\ ChatIdle /\ StatusIdle /\ HelperIdle /\ ToastIdle
              /\ CheckoutIdle /\ GridIdle

SpecCart == InitCart /\ [][CartNext]_vars

\* Toasts are shown and dismissed; nothing else runs.
InitToast == ToastInit /\ ChatIdle /\ StatusIdle /\ HelperIdle /\ CartIdle
              /\ CheckoutIdle /\ GridIdle

\* The event loop runs every armed timer once its delay has passed.
ToastFairness ==
    /\ WF_vars(ToastTimerWait)
    /\ WF_vars(ToastTimerFires)

SpecToast == InitToast /\ [][ToastNext]_vars /\ ToastFairness

\* The drawer is open on a cart; handleCheckout may be called.
InitCheckout == CheckoutInit /\ ChatIdle /\ StatusIdle /\ HelperIdle /\ ToastIdle
                /\ GridIdle

SpecCheckout == InitCheckout /\ [][CheckoutNext]_vars

\* The product grid is mounted.
InitGrid == GridInit /\ ChatIdle /\ StatusIdle /\ HelperIdle /\ CartIdle /\ ToastIdle
            /\ CheckoutIdle

SpecGrid == InitGrid /\ [][GridNext]_vars

------------------------------------------------------------------------------
(* Reference definitions for the properties of Part I *)

\* The callbacks the wire format asks for, per kind of record.
ExpectedOf(kind) ==
    CASE kind = "hi"          -> <<Call("onChunk", "Hi")>>
      [] kind = "text"        -> <<Call("onChunk", CharE9)>>
      [] kind = "suggestions" -> <<Call("onSuggestions", "[]")>>
      [] kind = "cart_add"    -> <<Call("onCartAdd", "[]")>>
      [] kind = "done"        -> <<Call("onDone", NoArg)>>
      [] kind = "error"       -> <<Call("onError", "E")>>
      [] OTHER                -> <<>>

RECURSIVE ExpectedCalls(_)
ExpectedCalls(rs) ==
    IF rs = <<>> THEN <<>> ELSE ExpectedOf(Head(rs)) \o ExpectedCalls(Tail(rs))

Without(rs, kinds) == SelectSeq(rs, LAMBDA k : k \notin kinds)

Count(rs, kinds) == Cardinality({i \in 1..Len(rs) : rs[i] \in kinds})

CountCalls(cb, arg) ==
    Cardinality({i \in 1..Len(calls) : calls[i] = Call(cb, arg)})

\* The number of records whose closing newline has been handed out by read().
Delivered ==
    Cardinality({i \in 1..Len(records) : Len(StreamOf(SubSeq(records, 1, i))) <= pos})

\* What chatStream does when the whole body arrives as a single value.
Unsplit(body) == ProcessChunk(Start, body)

TerminalSeen == \E i \in 1..Len(calls) : calls[i].cb \in {"onDone", "onError"}

------------------------------------------------------------------------------
(* Properties of Part I *)

\* C1: whatever the split of the response body into the values of read(),
\* mid-line and mid-character splits included, when chatStream returns it has
\* invoked the same callbacks with the same arguments, in the same order, as
\* it does when the whole body arrives as a single value.
C1_SplitInvariant ==
    cpc = "resolved" => calls = Unsplit(stream).calls

C1_Witness ==
    /\ cpc = "resolved"
    /\ midLine
    /\ Len(calls) = 2

\* C2 (as claimed): once a record of type done has been processed no further
\* callback is invoked: onDone is never followed by another callback.
C2_NothingAfterDone ==
    \A i \in 1..Len(calls) : calls[i].cb = "onDone" => i = Len(calls)

\* C3: a `data: ` line that is not JSON invokes no callback and is only
\* reported: when chatStream returns, it has reported exactly the malformed
\* lines and has invoked the callbacks it invokes for the same body without
\* them; it rejects only when the request itself failed.
C3_MalformedSkipped ==
    /\ cpc = "resolved" =>
          /\ calls = Unsplit(BodyOf(Without(records, {"bad"}), tail)).calls
          /\ warned = [i \in 1..Count(records, {"bad"}) |-> LineOf("bad")]
    /\ cpc = "rejected" => pos = 0 /\ calls = <<>>

C3_Witness ==
    /\ cpc = "resolved"
    /\ records = <<"bad", "text">>
    /\ calls = <<Call("onChunk", CharE9)>>
    /\ midLine

\* C4: a complete line without the prefix `data: `, an empty line included,
\* invokes no callback and leaves the lines after it parsed as if it had not
\* been in the body: the callbacks and the reports are those of the body
\* without such lines.
C4_OtherLinesIgnored ==
    cpc = "resolved" =>
       LET ref == Unsplit(BodyOf(Without(records, {"nondata", "empty"}), tail))
       IN  /\ calls = ref.calls
           /\ warned = ref.warned
           /\ buffer = ref.buffer

C4_Witness ==
    /\ cpc = "resolved"
    /\ \E k \in {"nondata", "empty"} : records = <<k, "error">>
    /\ calls = <<Call("onError", "E")>>
    /\ midLine

\* C5: callbacks come in the order of their records, once per valid record:
\* at every moment the callbacks invoked are exactly those of the records
\* whose closing newline has arrived; and the three chunks of the example give
\* onChunk("Hi") after the first, nothing more after the second, and onDone
\* after the third, and nothing else.
C5_InOrderOnce ==
    /\ cpc \in {"reading", "resolved"} =>
          calls = ExpectedCalls(SubSeq(records, 1, Delivered))
    /\ mode = "script" =>
          /\ Len(script) = 3 => calls = <<>>
          /\ Len(script) \in {1, 2} => calls = <<Call("onChunk", "Hi")>>
          /\ Len(script) = 0 => calls = <<Call("onChunk", "Hi"), Call("onDone", NoArg)>>

C5_Witness ==
    /\ mode = "script"
    /\ cpc = "resolved"
    /\ script = <<>>
    /\ pos = Len(stream)
    /\ calls = <<Call("onChunk", "Hi"), Call("onDone", NoArg)>>

\* C6: each valid record invokes the one callback of its type with its
\* payload, and a record of another type invokes none: when chatStream returns
\* each callback has been invoked with each payload as often as the body holds
\* a record of that type, and no other callback has been invoked.
C6_CallbackPerType ==
    cpc = "resolved" =>
       /\ CountCalls("onChunk", CharE9) = Count(records, {"text"})
       /\ CountCalls("onChunk", "Hi") = Count(records, {"hi"})
       /\ CountCalls("onSuggestions", "[]") = Count(records, {"suggestions"})
       /\ CountCalls("onCartAdd", "[]") = Count(records, {"cart_add"})
       /\ CountCalls("onDone", NoArg) = Count(records, {"done"})
       /\ CountCalls("onError", "E") = Count(records, {"error"})
       /\ Len(calls) = Count(records, {"text", "hi", "suggestions", "cart_add",
                                       "done", "error"})

C6_Witness ==
    /\ cpc = "resolved"
    /\ records = <<"ping", "cart_add">>
    /\ calls = <<Call("onCartAdd", "[]")>>

\* C7 (as claimed): a done or error record ends the stream: once one has been
\* processed chatStream has returned, and no callback follows it.
C7_EndsOnTerminalRecord ==
    TerminalSeen =>
       /\ cpc = "resolved"
       /\ calls[Len(calls)].cb \in {"onDone", "onError"}
       /\ \A i \in 1..(Len(calls) - 1) : calls[i].cb \notin {"onDone", "onError"}

\* C23 (as claimed): after handleSend has started a chat stream, `loading`
\* returns to false and the isStreaming flag of the placeholder is cleared,
\* for good, in every way the stream can end: a done record, an error record,
\* a failed request, or the transport closing without a done or error record.
C23_LoadingEventuallyFalse ==
    <>[](~loading /\ ~isStreaming)

\* C24: text still held in the partial-line buffer when the transport closes,
\* a final `data: ` record without its newline, is discarded: when chatStream
\* returns the buffer still holds it, and the callbacks and reports are those
\* of the body without it.
C24_UnterminatedTailDiscarded ==
    (cpc = "resolved" /\ tail # "") =>
       /\ buffer = tail
       /\ calls = Unsplit(StreamOf(records)).calls
       /\ warned = Unsplit(StreamOf(records)).warned

C24_Witness ==
    /\ cpc = "resolved"
    /\ tail = LineOf("done")
    /\ records = <<"cart_add">>
    /\ buffer = LineOf("done")
    /\ Len(calls) = 1
    /\ calls[1].cb = "onCartAdd"

------------------------------------------------------------------------------
(* Properties of Part II *)

Timestamps == getStatusTimestamps(storage, orderId)

EventStatuses == {events[i].status : i \in 1..Len(events)}

IssuedStatuses == {issued[i].status : i \in 1..Len(issued)}

\* C8 (as claimed): the updates are issued in the order confirmed, shipped,
\* delivered, and the orderStatusChange events are dispatched in that order
\* too, whatever the latencies: the status of each event is later in
\* STATUS_ORDER than the status of every event before it.
C8_EventsNeverMoveBackward ==
    /\ \A i \in 1..Len(issued) : issued[i].status = DelayedStatuses[i]
    /\ \A i, j \in 1..Len(events) :
          i < j => getStatusIndex(events[i].status) < getStatusIndex(events[j].status)

\* C9: a failed update is only logged: a status whose update failed has no
\* timestamp and no event; nothing recorded is taken back (the pending
\* timestamp and the timestamp of every announced status stay); and the
\* update of the status after a failed one is still armed, in flight or done.
C9_FailureOnlyLogged ==
    /\ \A s \in failed : s \notin DOMAIN Timestamps /\ s \notin EventStatuses
    /\ spc = "started" => "pending" \in DOMAIN Timestamps
    /\ EventStatuses \subseteq DOMAIN Timestamps
    /\ \A i \in 1..(Len(DelayedStatuses) - 1) :
          DelayedStatuses[i] \in failed =>
             \/ \E t \in timers : t.status = DelayedStatuses[i + 1]
             \/ DelayedStatuses[i + 1] \in IssuedStatuses

C9_Witness ==
    /\ variant = "chained"
    /\ failed = {"confirmed"}
    /\ EventStatuses = {"shipped"}
    /\ DOMAIN Timestamps = {"pending", "shipped"}
    /\ \E t \in timers : t.status = "delivered"

\* C10 (as claimed): every update request is issued at its delay after the
\* call of startStatusProgression: confirmed at +5 s, shipped at +15 s,
\* delivered at +30 s, however long the earlier requests take.
C10_IssuedAtDelayFromCreation ==
    \A i \in 1..Len(issued) :
        issued[i].at = startedAt + STATUS_DELAYS[issued[i].status]

\* C11: the pending timestamp is stored before any update is issued, under
\* the key of that order and no other; and the timestamp of a status whose
\* update succeeded is stored before its orderStatusChange event is
\* dispatched: a listener that reads getStatusTimestamps(orderId) when the
\* event fires finds the timestamp of the event's status (and of pending).
C11_TimestampBeforeEvent ==
    /\ Len(issued) > 0 => "pending" \in DOMAIN Timestamps
    /\ \A i \in 1..Len(events) :
          /\ events[i].orderId = orderId
          /\ {"pending", events[i].status} \subseteq DOMAIN events[i].seen
    /\ \A id \in OrderIds \ {orderId} :
          getStatusTimestamps(storage, id) = NoTimestamps

C11_Witness ==
    /\ Len(events) = 3
    /\ DOMAIN events[1].seen = {"pending", events[1].status}
    /\ DOMAIN Timestamps = {"pending", "confirmed", "shipped", "delivered"}

\* All three updates have been attempted and nothing is armed or in flight.
ProgressionOver ==
    /\ Len(issued) = Len(DelayedStatuses)
    /\ timers = {}
    /\ inflight = {}

\* C12: when every update request settles, one call of startStatusProgression
\* makes exactly three update attempts, one for each of confirmed, shipped and
\* delivered and none of them twice, and then no timer is armed any more,
\* whatever mix of successes and failures occurs.
C12_ThreeAttemptsThenStops ==
    /\ [](\A i, j \in 1..Len(issued) :
            /\ issued[i].status \in {"confirmed", "shipped", "delivered"}
            /\ i # j => issued[i].status # issued[j].status)
    /\ (spc = "started") ~> []ProgressionOver

C12_Witness ==
    /\ ProgressionOver
    /\ failed = {"shipped"}
    /\ EventStatuses = {"confirmed", "delivered"}

\* C18: getStatusTimestamps(orderId) returns an empty record when nothing has
\* been stored for that order and otherwise exactly the record stored under
\* that order's key; once the progression has started it holds the timestamp
\* of pending (the time of the call) and one for each status whose update
\* succeeded, and none for a status whose update failed, is still in flight
\* or has not been attempted.
C18_TimestampsAsStored ==
    /\ DOMAIN storage \subseteq StorageKeys
    /\ \A id \in OrderIds :
          getStatusTimestamps(storage, id) =
             IF getStorageKey(id) \in DOMAIN storage
             THEN storage[getStorageKey(id)]
             ELSE NoTimestamps
    /\ spc = "idle" => \A id \in OrderIds : getStatusTimestamps(storage, id) = NoTimestamps
    /\ spc = "started" =>
          /\ DOMAIN Timestamps = {"pending"} \cup EventStatuses
          /\ Timestamps["pending"] = startedAt
          /\ \A s \in failed \cup inflight : s \notin DOMAIN Timestamps
          /\ \A i \in 1..Len(DelayedStatuses) :
                DelayedStatuses[i] \notin IssuedStatuses =>
                   DelayedStatuses[i] \notin DOMAIN Timestamps

C18_Witness ==
    /\ failed = {"confirmed"}
    /\ EventStatuses = {"shipped"}
    /\ inflight = {"delivered"}
    /\ Timestamps["pending"] = startedAt
    /\ DOMAIN Timestamps = {"pending", "shipped"}

\* C20: in the chained progression at most one status-update request of the
\* order is in flight at any time, and the timer of the next status is armed
\* only when the previous request has settled, by success or by failure: no
\* timer is armed while a request is in flight, and at most one is armed.
C20_OneRequestAtATime ==
    variant = "chained" =>
       /\ Cardinality(inflight) <= 1
       /\ Cardinality(timers) <= 1
       /\ inflight # {} => timers = {}
       /\ \A t \in timers : \A i \in 2..Len(DelayedStatuses) :
             t.status = DelayedStatuses[i] =>
                DelayedStatuses[i - 1] \in (EventStatuses \cup failed)

C20_Witness ==
    /\ variant = "chained"
    /\ failed = {"confirmed"}
    /\ inflight = {"shipped"}
    /\ timers = {}

------------------------------------------------------------------------------
(* Properties of Part III *)

\* The order of the statuses as the properties state it.
StatedOrder == <<"pending", "confirmed", "shipped", "delivered">>

StatedStatuses == {StatedOrder[i] : i \in 1..Len(StatedOrder)}

PlaceOf(status) == CHOOSE i \in 1..Len(StatedOrder) : StatedOrder[i] = status

\* C16: for current and check among pending, confirmed, shipped, delivered,
\* isStatusComplete(current, check) is true exactly when check is at or before
\* current in that order: true for every earlier status and for current
\* itself, false for every later status.
C16_CompleteIffAtOrBefore ==
    (/\ returned.fn = "isStatusComplete"
     /\ currentArg \in StatedStatuses
     /\ checkArg \in StatedStatuses)
       => (returned.value <=> PlaceOf(checkArg) <= PlaceOf(currentArg))

C16_Witness ==
    /\ returned.fn = "isStatusComplete"
    /\ returned.value
    /\ currentArg = "shipped"
    /\ checkArg = "shipped"

\* C17: getStatuses() returns pending, confirmed, shipped, delivered in that
\* order, and getStatusIndex(s) returns the position of s in that list, from
\* 0 to 3, and -1 for every status that is not in it.
C17_StatusesAndIndex ==
    /\ returned.fn = "getStatuses" => returned.value = StatedOrder
    /\ returned.fn = "getStatusIndex" =>
          returned.value = IF currentArg \in StatedStatuses
                           THEN PlaceOf(currentArg) - 1
                           ELSE -1

C17_Witness ==
    /\ returned.fn = "getStatusIndex"
    /\ returned.value = -1
    /\ currentArg = "unknown"

------------------------------------------------------------------------------
(* Properties of Part IV *)

InCart(items, p) == \E i \in 1..Len(items) : items[i].product = p

\* `items` with the quantity of the entry of product p set to q.
WithQuantity(items, p, q) ==
    [i \in 1..Len(items) |->
        IF items[i].product = p THEN [product |-> p, quantity |-> q] ELSE items[i]]

QuantityOf(items, p) ==
    LET i == CHOOSE i \in 1..Len(items) : items[i].product = p
    IN  items[i].quantity

RECURSIVE SumOver(_, _)
\* The sum of f[i] for the indices i in the set `indices`.
SumOver(f, indices) ==
    IF indices = {} THEN 0
    ELSE LET i == CHOOSE i \in indices : TRUE
         IN  f[i] + SumOver(f, indices \ {i})

\* C13 (as claimed): the cart holds at most one entry per product id; addItem
\* of a product that is not in the cart appends one entry with the given
\* quantity, and addItem of a product that is in the cart leaves the number
\* of entries unchanged and adds exactly the given quantity to that entry.
C13_AddItemAddsOnce ==
    /\ \A i, j \in 1..Len(cart) : i # j => cart[i].product # cart[j].product
    /\ lastAction.type = "ADD_ITEM" =>
          IF InCart(cartBefore, lastAction.product)
          THEN cart = WithQuantity(cartBefore, lastAction.product,
                         QuantityOf(cartBefore, lastAction.product)
                            + lastAction.quantity)
          ELSE cart = Append(cartBefore, [product  |-> lastAction.product,
                                          quantity |-> lastAction.quantity])

\* C14 (as claimed): updateQuantity(productId, q) with q > 0 sets the
\* quantity of the entry of that product to q and leaves every other entry
\* unchanged; with q <= 0 it removes that entry and no other; for a product
\* that is not in the cart it leaves the cart unchanged.
C14_UpdateQuantityOneEntry ==
    lastAction.type = "UPDATE_QUANTITY" =>
       IF ~InCart(cartBefore, lastAction.product)
       THEN cart = cartBefore
       ELSE IF lastAction.quantity > 0
            THEN cart = WithQuantity(cartBefore, lastAction.product,
                                     lastAction.quantity)
            ELSE cart = SelectSeq(cartBefore,
                           LAMBDA item : item.product # lastAction.product)

\* C15: in every reachable cart state getTotal() is the sum over the cart
\* entries of product.price times quantity, 0 for an empty cart, and
\* getItemCount() is the sum of the quantities of the entries.
C15_TotalAndCount ==
    /\ shownTotal = SumOver([i \in 1..Len(cart) |->
                                Price[cart[i].product] * cart[i].quantity],
                            1..Len(cart))
    /\ shownCount = SumOver([i \in 1..Len(cart) |-> cart[i].quantity],
                            1..Len(cart))
    /\ cart = <<>> => shownTotal = 0 /\ shownCount = 0

C15_Witness ==
    /\ cart = <<[product |-> 1, quantity |-> 2], [product |-> 2, quantity |-> 3]>>
    /\ lastAction.type = "ADD_ITEM"
    /\ shownTotal = 3650
    /\ shownCount = 5

\* The actions addItem, updateQuantity, removeItem and clearCart dispatch.
CartActions ==
    {[type |-> "ADD_ITEM", product |-> p, quantity |-> q] :
        p \in Products, q \in AddQuantities}
    \cup {[type |-> "UPDATE_QUANTITY", product |-> p, quantity |-> q] :
        p \in Products, q \in SetQuantities}
    \cup {[type |-> "REMOVE_ITEM", product |-> p, quantity |-> 0] : p \in Products}
    \cup {[type |-> "CLEAR_CART", product |-> 0, quantity |-> 0]}

\* C25 (as claimed): cartReducer never modifies the state it is given: for
\* every cart state and every action the entries of the given state and
\* their quantities are the same after the call as before it, so the second
\* call React.StrictMode makes with the same state and action returns what
\* the first returned, and dispatch gives what a single call gives.
C25_ReducerLeavesGivenState ==
    \A action \in CartActions :
        /\ cartReducer(cart, action).given = cart
        /\ cartReducer(cartReducer(cart, action).given, action).state
              = cartReducer(cart, action).state
        /\ dispatch(TRUE, cart, action) = dispatch(FALSE, cart, action)

------------------------------------------------------------------------------
(* Properties of Part V *)

OnList(n) == \E i \in 1..Len(toasts) : toasts[i].serial = n

ShownFor(n, durations) ==
    \E i \in 1..Len(toasts) :
        toasts[i].serial = n /\ toasts[i].duration \in durations

\* C19 (as claimed): every toast shown with a positive duration is eventually
\* off the list, by its timer if not dismissed earlier; a toast shown with
\* duration <= 0 is never taken off by a timer; dismissToast(id) takes off only
\* the toast it was called for; and a timer that fires when its toast is no
\* longer on the list changes nothing.
C19_AutoDismiss ==
    /\ \A n \in 1..MaxToasts :
          ShownFor(n, {d \in Durations : d > 0}) ~> ~OnList(n)
    /\ [](\A r \in removals : r.by = "timer" => r.duration > 0)
    /\ [](\A r \in removals : r.toast = r.target)


------------------------------------------------------------------------------
(* Properties of Part VI *)

\* C21: if createOrder fails during checkout, the cart is left unchanged, an
\* error toast is shown, no delivery notification is scheduled and the request
\* is not sent again; if it succeeds the cart is cleared; in both cases
\* `submitting` is false when handleCheckout is over; and handleCheckout with
\* an empty cart sends no request.
C21_CheckoutOutcomes ==
    [][ /\ (checkoutPc = "createOrder" /\ checkoutPc' = "idle") =>
              /\ cart' = cart
              /\ toastCalls' = Append(toastCalls, "error")
              /\ notifTimers' = notifTimers
              /\ requestsSent' = requestsSent
        /\ (checkoutPc = "createOrder" /\ checkoutPc' = "permission") =>
              /\ cart' = <<>>
              /\ toastCalls' = Append(toastCalls, "success")
        /\ checkoutPc' = "idle" => ~submitting'
        /\ (checkouts' # checkouts /\ Len(cart) = 0) =>
              /\ requestsSent' = requestsSent
              /\ checkoutPc' = "idle"
        /\ requestsSent' <= checkouts'
      ]_vars

\* A failed checkout of a cart that is not empty: the cart is as it was and
\* handleCheckout is over.
C21_Witness ==
    /\ toastCalls = <<"error">>
    /\ checkouts = 1
    /\ requestsSent = 1
    /\ cartChanges = 0
    /\ Len(cart) = 2
    /\ checkoutPc = "idle"
    /\ ~submitting
    /\ notifTimers = {}

\* The delivery timers that fired when a push Notification could be
\* constructed, and those that fired when it could not.
FiredWithPush == SelectSeq(fired, LAMBDA f : f.permitted /\ ~constructorThrows)

FiredWithoutPush == SelectSeq(fired, LAMBDA f : ~(f.permitted /\ ~constructorThrows))

\* C22: when a scheduled delivery notification fires, exactly one of the two
\* channels is used: a push Notification when permission is granted and its
\* construction succeeds, otherwise (permission not granted, API unsupported,
\* or the constructor throws) one deliveryNotification event carrying the
\* order id; never both and never neither.
C22_ExactlyOneChannel ==
    /\ pushes = [i \in 1..Len(FiredWithPush) |-> FiredWithPush[i].orderId]
    /\ deliveryEvents = [i \in 1..Len(FiredWithoutPush) |->
                            [orderId |-> FiredWithoutPush[i].orderId]]

\* The first order was delivered by the event (the permission prompt was
\* dismissed), the second by a push Notification (the prompt was accepted).
C22_Witness ==
    /\ pushes = <<2>>
    /\ deliveryEvents = <<[orderId |-> 1]>>
    /\ notifTimers = {}

\* C26 (as claimed): every cart entry removed by a successful checkout was part
\* of the order submitted to createOrder: items added to the cart, or
\* quantities changed, while the request is in flight are not lost when the
\* cart is cleared.
C26_ClearedWasOrdered ==
    checkoutPc = "permission" =>
        \A i \in 1..Len(cleared) :
            \E j \in 1..Len(orderItems) :
                orderItems[j] = [product_id |-> cleared[i].product,
                                 quantity   |-> cleared[i].quantity]

------------------------------------------------------------------------------
(* Properties of Part VII *)

\* C27 (as claimed): when searchQuery or selectedCategory changes while an
\* earlier getProducts request is in flight, then once all requests have
\* settled the grid shows the result of the request made for the latest
\* values, whatever order the responses arrive in.
C27_LatestFilterShown ==
    (gridInFlight = {} /\ gridCount > 1 /\ gridCount \notin gridRejected) =>
        products = gridCount

====
